---- MODULE Spec2Model ----
(***************************************************************************)
(* A model of wheezy.caching: the in-process MemoryCache (memory.py), the  *)
(* cache patterns get_or_add and OnePass (patterns.py) and the Lockout     *)
(* guard (lockout.py).  Every operation is a sequence of steps of a        *)
(* thread; a step is what the code does between two lock operations or     *)
(* two calls into the cache.                                               *)
(***************************************************************************)
EXTENDS Integers, Sequences, FiniteSets, TLC

\* ------------------------------------------------------------------ bounds

\* Threads calling into one MemoryCache.
NumThreads == 2
\* The last value int(unixtime()) takes; the clock starts at 1.
MaxNow == 3
\* Records held by all expiry buckets together (pending appends included).
MaxBucketItems == 3
\* The same under BulkInputs.
MaxBulkBucketItems == 5

\* ------------------------------------------------------- program constants

\* memory.py:29, "1 month" in seconds.
Month == 2592000
\* MemoryCache(buckets=2, bucket_interval=1): the constructor's parameters.
buckets == 2
bucket_interval == 1
\* memory.py:77
period == buckets * bucket_interval

Threads == 1 .. NumThreads
\* Keys of the table; "pa" is also key_prefix "p" followed by "a".
Keys == {"a", "pa"}
Prefixes == {"", "p"}
Values == {1, 2}
\* The `time` arguments: never expires (<= 0) and relative seconds.
Times == {-1, 0, 1}
\* Python's None as a returned value; the values stored are numbers above it.
None == -1

VARIABLES
    clock,                  \* int(unixtime())
    items,                  \* self.items: key -> CacheItem
    lock,                   \* self.lock: 0 when free, else the holder
    expire_buckets,         \* the bucket_items list of every bucket
    bucket_locks,           \* the lock of every bucket: 0 or the holder
    last_expire_bucket_id,  \* self.last_expire_bucket_id
    pc,                     \* where each thread is
    frame,                  \* each thread's arguments and local variables
    ticks,                  \* time() of the cache clients, in units of 0.05 s
    cache,                  \* what the cache behind MemcachedClient holds
    dependency,             \* the keys registered by dependency.add
    calls                   \* the guarded calls made so far, in order

vars == <<clock, items, lock, expire_buckets, bucket_locks,
          last_expire_bucket_id, pc, frame, ticks, cache, dependency, calls>>

\* The state of a MemoryCache and the state around a MemcachedClient.
memory_vars == <<clock, items, lock, expire_buckets, bucket_locks,
                 last_expire_bucket_id>>
client_vars == <<ticks, cache, dependency, calls>>

\* ---------------------------------------------------------- pure functions

\* memory.py expires(now, time)
expires(now, time) ==
    IF time > 0
    THEN IF time < Month THEN now + time ELSE time
    ELSE 0

RemoveAt(s, i) == SubSeq(s, 1, i - 1) \o SubSeq(s, i + 1, Len(s))

RECURSIVE find_expired_from(_, _, _)
\* The loop of find_expired at index i (1-based), going down to the first.
find_expired_from(bucket_items, i, now) ==
    IF i = 0
    THEN [expired_keys |-> <<>>, bucket_items |-> bucket_items]
    ELSE IF bucket_items[i][2] < now
         THEN LET rest == find_expired_from(RemoveAt(bucket_items, i), i - 1, now)
              IN  [expired_keys |-> <<bucket_items[i][1]>> \o rest.expired_keys,
                   bucket_items |-> rest.bucket_items]
         ELSE find_expired_from(bucket_items, i - 1, now)

\* memory.py find_expired(bucket_items, now): the expired keys, and the
\* bucket without them.
find_expired(bucket_items, now) ==
    find_expired_from(bucket_items, Len(bucket_items), now)

CacheItem(key, value, expires_at) ==
    [key |-> key, value |-> value, expires |-> expires_at]

\* del d[k] and d[k] = v of a Python dict
DictDel(d, k) == [x \in DOMAIN d \ {k} |-> d[x]]
DictSet(d, k, v) == [x \in DOMAIN d \cup {k} |-> IF x = k THEN v ELSE d[x]]

\* (now % self.period) / self.interval
bucket_id_of(now) == (now % period) \div bucket_interval
\* self.expire_buckets[bucket_id - 1]: Python's index -1 is the last bucket.
bucket_index(bucket_id) == ((bucket_id - 1 + buckets) % buckets) + 1

\* --------------------------------------------- the sections under a lock

\* store, memory.py:313-326: the block under self.lock.  `entry` is the
\* item found (a sequence of at most one item), `result` is FALSE where
\* the code returns False.
store_locked(d, key, value, time, now, op) ==
    IF key \in DOMAIN d
    THEN IF d[key].expires < now
         THEN [items |-> DictSet(DictDel(d, key), key, CacheItem(key, value, time)),
               result |-> TRUE, entry |-> <<d[key]>>]
         ELSE IF op = 1
              THEN [items |-> d, result |-> FALSE, entry |-> <<d[key]>>]
              ELSE [items |-> DictSet(d, key, CacheItem(key, value, time)),
                    result |-> TRUE, entry |-> <<d[key]>>]
    ELSE IF op = 2
         THEN [items |-> d, result |-> FALSE, entry |-> <<>>]
         ELSE [items |-> DictSet(d, key, CacheItem(key, value, time)),
               result |-> TRUE, entry |-> <<>>]

RECURSIVE store_multi_locked_from(_, _, _, _, _, _, _, _)
\* store_multi, memory.py:368-382: the loop over mapping.iteritems(), at
\* position i of the iteration order `keys`.
store_multi_locked_from(d, keys, i, key_prefix, value, time, now, op) ==
    IF i > Len(keys)
    THEN [items |-> d, keys_failed |-> <<>>, succeeded |-> <<>>]
    ELSE LET k == keys[i]
             key == key_prefix \o k
             present == key \in DOMAIN d
             expired == present /\ d[key].expires < now
             d1 == IF expired THEN DictDel(d, key) ELSE d
             failed == \/ present /\ ~expired /\ op = 1
                       \/ ~present /\ op = 2
             d2 == IF failed THEN d1 ELSE DictSet(d1, key, CacheItem(key, value, time))
             rest == store_multi_locked_from(d2, keys, i + 1, key_prefix, value,
                                             time, now, op)
         IN  [items |-> rest.items,
              keys_failed |-> (IF failed THEN <<k>> ELSE <<>>) \o rest.keys_failed,
              succeeded |-> (IF failed THEN <<>> ELSE << <<key, time>> >>)
                            \o rest.succeeded]

\* store_multi, memory.py:366-384
store_multi_locked(d, keys, key_prefix, value, time, now, op) ==
    store_multi_locked_from(d, keys, 1, key_prefix, value, time, now, op)

\* store, memory.py:329-338: the block under the bucket's lock.
store_bucket(bs, last_id, now, key, time) ==
    LET bucket_id == bucket_id_of(now)
        idx == bucket_index(bucket_id)
        scan == last_id # bucket_id
        found == IF scan THEN find_expired(bs[idx], now)
                 ELSE [expired_keys |-> <<>>, bucket_items |-> bs[idx]]
    IN  [expire_buckets |-> [bs EXCEPT ![idx] = Append(found.bucket_items, <<key, time>>)],
         last_expire_bucket_id |-> IF scan THEN bucket_id ELSE last_id,
         expired_keys |-> found.expired_keys]

\* store_multi, memory.py:387-396: the block under the bucket's lock.
store_multi_bucket(bs, last_id, now, succeeded) ==
    LET bucket_id == bucket_id_of(now)
        idx == bucket_index(bucket_id)
        scan == last_id # bucket_id
        found == IF scan THEN find_expired(bs[idx], now)
                 ELSE [expired_keys |-> <<>>, bucket_items |-> bs[idx]]
    IN  [expire_buckets |-> [bs EXCEPT ![idx] = found.bucket_items \o succeeded],
         last_expire_bucket_id |-> IF scan THEN bucket_id ELSE last_id,
         expired_keys |-> found.expired_keys]

\* get, memory.py:176-186
get_locked(d, key, now) ==
    IF key \in DOMAIN d
    THEN IF d[key].expires < now
         THEN [items |-> DictDel(d, key), result |-> None, entry |-> <<d[key]>>]
         ELSE [items |-> d, result |-> d[key].value, entry |-> <<d[key]>>]
    ELSE [items |-> d, result |-> None, entry |-> <<>>]

RECURSIVE get_multi_locked_from(_, _, _, _, _)
\* get_multi, memory.py:215-224: the loop over keys at position i; results
\* is the dict built so far.
get_multi_locked_from(d, keys, i, key_prefix, now) ==
    IF i > Len(keys)
    THEN [items |-> d, results |-> <<>>]
    ELSE LET k == keys[i]
             key == key_prefix \o k
             present == key \in DOMAIN d
             expired == present /\ d[key].expires < now
             rest == get_multi_locked_from(IF expired THEN DictDel(d, key) ELSE d,
                                           keys, i + 1, key_prefix, now)
         IN  [items |-> rest.items,
              results |-> IF present /\ ~expired /\ k \notin DOMAIN rest.results
                          THEN DictSet(rest.results, k, d[key].value)
                          ELSE rest.results]

\* get_multi, memory.py:213-227
get_multi_locked(d, keys, key_prefix, now) ==
    get_multi_locked_from(d, keys, 1, key_prefix, now)

\* delete, memory.py:251-261
delete_locked(d, key, now) ==
    IF key \in DOMAIN d
    THEN [items |-> DictDel(d, key), result |-> ~(d[key].expires < now)]
    ELSE [items |-> d, result |-> FALSE]

\* delete_multi, memory.py:281-290
delete_multi_locked(d, keys, key_prefix) ==
    [x \in DOMAIN d \ {key_prefix \o keys[i] : i \in DOMAIN keys} |-> d[x]]

\* ------------------------------------------------------------- the state

\* A thread outside any call.  A frame holds a call's arguments and local
\* variables while they are still read, and the value it returns.
IdleFrame ==
    [fn |-> "", op |-> 0, key |-> "", keys |-> <<>>, key_prefix |-> "",
     value |-> 0, time |-> 0, now |-> 0, result |-> None,
     expired_keys |-> <<>>, scanned |-> FALSE, succeeded |-> <<>>, i |-> 0]

\* The state after MemoryCache.__init__, memory.py:76-83.
InitMemory ==
    /\ clock = 1
    /\ items = <<>>
    /\ lock = 0
    /\ expire_buckets = [b \in 1 .. buckets |-> <<>>]
    /\ bucket_locks = [b \in 1 .. buckets |-> 0]
    /\ last_expire_bucket_id = -1

\* An empty cache behind the client, nothing registered, no call made.
InitClient ==
    /\ ticks = 0
    /\ cache = <<>>
    /\ dependency = <<>>
    /\ calls = <<>>

Init ==
    /\ InitMemory
    /\ InitClient
    /\ pc = [t \in Threads |-> "idle"]
    /\ frame = [t \in Threads |-> IdleFrame]

\* The bulk calls' keys: <<key_prefix, keys in iteration order>>.
KeyLists ==
    {<<"", <<"a">> >>, <<"", <<"a", "pa">> >>, <<"", <<"pa", "a">> >>,
     <<"p", <<"a">> >>}

\* What one thread after another calls the cache with.
Inputs ==
    [threads |-> {1}, keys |-> Keys, values |-> Values, times |-> Times,
     key_lists |-> KeyLists, max_records |-> MaxBucketItems]

\* One thread that stores and reads two keys in bulk and one of them singly,
\* with room for the records of two bulk stores and a single one.
BulkInputs ==
    [threads |-> {1}, keys |-> {"pa"}, values |-> {1}, times |-> {0, 1},
     key_lists |-> {<<"", <<"a", "pa">> >>, <<"", <<"pa", "a">> >>},
     max_records |-> MaxBulkBucketItems]

\* Records a thread inside store or store_multi may still append.
Pending(t) ==
    IF pc[t] \in {"acquire", "bucket_acquire", "bucket_locked"}
       /\ frame[t].fn \in {"store", "store_multi"} /\ frame[t].time > 0
    THEN IF frame[t].fn = "store" THEN 1
         ELSE IF pc[t] = "acquire" THEN Len(frame[t].keys)
         ELSE Len(frame[t].succeeded)
    ELSE 0

RECURSIVE BucketRecords(_)
\* The records in buckets 1 .. b.
BucketRecords(b) ==
    IF b = 0 THEN 0 ELSE Len(expire_buckets[b]) + BucketRecords(b - 1)

RECURSIVE PendingUpTo(_)
PendingUpTo(t) == IF t = 0 THEN 0 ELSE Pending(t) + PendingUpTo(t - 1)

\* Room for n more bucket records within in.max_records.
Room(n, in) == BucketRecords(buckets) + PendingUpTo(NumThreads) + n <= in.max_records

\* ------------------------------------------------------------- the calls

\* A call starts by reading the clock (now = int(unixtime())) and then
\* waits for self.lock.
Enter(t, f) ==
    /\ pc[t] = "idle"
    /\ frame' = [frame EXCEPT ![t] = f]
    /\ pc' = [pc EXCEPT ![t] = "acquire"]
    /\ UNCHANGED <<client_vars, clock, items, lock, expire_buckets, bucket_locks,
                   last_expire_bucket_id>>

\* store, memory.py:310-312
store(t, key, value, time, op) ==
    Enter(t, [IdleFrame EXCEPT !.fn = "store", !.key = key, !.value = value,
                                  !.now = clock, !.time = expires(clock, time),
                                  !.op = op])

\* store_multi, memory.py:361-365
store_multi(t, keys, value, time, key_prefix, op) ==
    Enter(t, [IdleFrame EXCEPT !.fn = "store_multi", !.keys = keys,
                                  !.key_prefix = key_prefix, !.value = value,
                                  !.now = clock, !.time = expires(clock, time),
                                  !.op = op])

\* set, memory.py:85-93
set(t, in) == \E key \in in.keys, value \in in.values, time \in in.times :
    (time > 0 => Room(1, in)) /\ store(t, key, value, time, 0)

\* add, memory.py:103-113
add(t, in) == \E key \in in.keys, value \in in.values, time \in in.times :
    (time > 0 => Room(1, in)) /\ store(t, key, value, time, 1)

\* replace, memory.py:125-137
replace(t, in) == \E key \in in.keys, value \in in.values, time \in in.times :
    (time > 0 => Room(1, in)) /\ store(t, key, value, time, 2)

\* set_multi, memory.py:95-101
set_multi(t, in) == \E kl \in in.key_lists, value \in in.values, time \in in.times :
    /\ time > 0 => Room(Len(kl[2]), in)
    /\ store_multi(t, kl[2], value, time, kl[1], 0)

\* add_multi, memory.py:115-123
add_multi(t, in) == \E kl \in in.key_lists, value \in in.values, time \in in.times :
    /\ time > 0 => Room(Len(kl[2]), in)
    /\ store_multi(t, kl[2], value, time, kl[1], 1)

\* replace_multi, memory.py:139-149
replace_multi(t, in) == \E kl \in in.key_lists, value \in in.values, time \in in.times :
    /\ time > 0 => Room(Len(kl[2]), in)
    /\ store_multi(t, kl[2], value, time, kl[1], 2)

\* get, memory.py:174-175
get(t, in) == \E key \in in.keys :
    Enter(t, [IdleFrame EXCEPT !.fn = "get", !.key = key, !.now = clock])

\* get_multi, memory.py:210-212
get_multi(t, in) == \E kl \in in.key_lists :
    Enter(t, [IdleFrame EXCEPT !.fn = "get_multi", !.keys = kl[2],
                               !.key_prefix = kl[1], !.now = clock])

\* delete, memory.py:249-250
delete(t, in) == \E key \in in.keys :
    Enter(t, [IdleFrame EXCEPT !.fn = "delete", !.key = key, !.now = clock])

\* delete_multi, memory.py:280
delete_multi(t, in) == \E kl \in in.key_lists :
    Enter(t, [IdleFrame EXCEPT !.fn = "delete_multi", !.keys = kl[2],
                               !.key_prefix = kl[1]])

\* flush_all, memory.py:401
flush_all(t) == Enter(t, [IdleFrame EXCEPT !.fn = "flush_all"])

\* ------------------------------------------------------------- the steps

\* The frame of a call that returns: only the returned value is kept.
Returning(fn, result) == [IdleFrame EXCEPT !.fn = fn, !.result = result]

\* The frame of a store that has left the bucket's section: scanned tells
\* whether expired_keys was assigned (memory.py:335), now is kept with it.
Scanned(f, scanned) ==
    [Returning(f.fn, f.result) EXCEPT !.scanned = scanned, !.now = f.now]

\* store, memory.py:313-327: self.lock is taken, the table updated and the
\* lock released.
StoreLocked(t) ==
    /\ pc[t] = "acquire" /\ frame[t].fn = "store"
    /\ lock = 0
    /\ LET f == frame[t]
           r == store_locked(items, f.key, f.value, f.time, f.now, f.op)
       IN  /\ items' = r.items
           /\ IF r.result /\ f.time > 0
              THEN /\ frame' = [frame EXCEPT ![t] =
                          [IdleFrame EXCEPT !.fn = "store", !.key = f.key,
                                            !.time = f.time, !.now = f.now,
                                            !.result = TRUE]]
                   /\ pc' = [pc EXCEPT ![t] = "bucket_acquire"]
              ELSE /\ frame' = [frame EXCEPT ![t] = Returning("store", r.result)]
                   /\ pc' = [pc EXCEPT ![t] = "ret"]
    /\ UNCHANGED <<client_vars, clock, lock, expire_buckets, bucket_locks, last_expire_bucket_id>>

\* store_multi, memory.py:366-385
StoreMultiLocked(t) ==
    /\ pc[t] = "acquire" /\ frame[t].fn = "store_multi"
    /\ lock = 0
    /\ LET f == frame[t]
           r == store_multi_locked(items, f.keys, f.key_prefix, f.value, f.time,
                                   f.now, f.op)
       IN  /\ items' = r.items
           /\ IF f.time > 0 /\ r.succeeded # <<>>
              THEN /\ frame' = [frame EXCEPT ![t] =
                          [IdleFrame EXCEPT !.fn = "store_multi", !.time = f.time,
                                            !.now = f.now, !.result = r.keys_failed,
                                            !.succeeded = r.succeeded]]
                   /\ pc' = [pc EXCEPT ![t] = "bucket_acquire"]
              ELSE /\ frame' = [frame EXCEPT ![t] =
                                    Returning("store_multi", r.keys_failed)]
                   /\ pc' = [pc EXCEPT ![t] = "ret"]
    /\ UNCHANGED <<client_vars, clock, lock, expire_buckets, bucket_locks, last_expire_bucket_id>>

\* bucket_lock.acquire(1), memory.py:329-331 and 387-389
BucketAcquire(t) ==
    /\ pc[t] = "bucket_acquire"
    /\ LET idx == bucket_index(bucket_id_of(frame[t].now))
       IN  /\ bucket_locks[idx] = 0
           /\ bucket_locks' = [bucket_locks EXCEPT ![idx] = t]
    /\ pc' = [pc EXCEPT ![t] = "bucket_locked"]
    /\ UNCHANGED <<client_vars, clock, items, lock, expire_buckets, last_expire_bucket_id, frame>>

\* The bucket's section of a store that calls delete_multi before it
\* releases the bucket's lock.
BucketLocked_nested(t) ==
    /\ pc[t] = "bucket_locked"
    /\ LET f == frame[t]
           idx == bucket_index(bucket_id_of(f.now))
           r == IF f.fn = "store"
                THEN store_bucket(expire_buckets, last_expire_bucket_id, f.now,
                                  f.key, f.time)
                ELSE store_multi_bucket(expire_buckets, last_expire_bucket_id,
                                        f.now, f.succeeded)
           done == Scanned(f, last_expire_bucket_id # bucket_id_of(f.now))
       IN  /\ expire_buckets' = r.expire_buckets
           /\ last_expire_bucket_id' = r.last_expire_bucket_id
           /\ bucket_locks' = IF r.expired_keys # <<>> THEN bucket_locks
                             ELSE [bucket_locks EXCEPT ![idx] = 0]
           /\ IF r.expired_keys # <<>>
              THEN /\ frame' = [frame EXCEPT ![t] =
                          [done EXCEPT !.expired_keys = r.expired_keys]]
                   /\ pc' = [pc EXCEPT ![t] = "sweep_acquire"]
              ELSE /\ frame' = [frame EXCEPT ![t] = done]
                   /\ pc' = [pc EXCEPT ![t] = "ret"]
    /\ UNCHANGED <<client_vars, clock, items, lock>>

\* store, memory.py:332-339 and store_multi, memory.py:390-397: the scan,
\* the append and the release of the bucket's lock.
BucketLocked(t) ==
    /\ pc[t] = "bucket_locked"
    /\ LET f == frame[t]
           idx == bucket_index(bucket_id_of(f.now))
           r == IF f.fn = "store"
                THEN store_bucket(expire_buckets, last_expire_bucket_id, f.now,
                                  f.key, f.time)
                ELSE store_multi_bucket(expire_buckets, last_expire_bucket_id,
                                        f.now, f.succeeded)
           done == Scanned(f, last_expire_bucket_id # bucket_id_of(f.now))
       IN  /\ expire_buckets' = r.expire_buckets
           /\ last_expire_bucket_id' = r.last_expire_bucket_id
           /\ bucket_locks' = [bucket_locks EXCEPT ![idx] = 0]
           /\ IF r.expired_keys # <<>>
              THEN /\ frame' = [frame EXCEPT ![t] =
                          [done EXCEPT !.expired_keys = r.expired_keys]]
                   /\ pc' = [pc EXCEPT ![t] = "sweep_acquire"]
              ELSE /\ frame' = [frame EXCEPT ![t] = done]
                   /\ pc' = [pc EXCEPT ![t] = "ret"]
    /\ UNCHANGED <<client_vars, clock, items, lock>>

\* self.delete_multi(expired_keys), memory.py:340 and 398: self.lock is
\* taken, the keys deleted from the table and the lock released.
SweepLocked(t) ==
    /\ pc[t] = "sweep_acquire"
    /\ lock = 0
    /\ items' = delete_multi_locked(items, frame[t].expired_keys, "")
    /\ frame' = [frame EXCEPT ![t] = Scanned(frame[t], frame[t].scanned)]
    /\ pc' = [pc EXCEPT ![t] = "ret"]
    /\ UNCHANGED <<client_vars, clock, lock, expire_buckets, bucket_locks, last_expire_bucket_id>>

\* get, memory.py:176-186
GetLocked(t) ==
    /\ pc[t] = "acquire" /\ frame[t].fn = "get"
    /\ lock = 0
    /\ LET r == get_locked(items, frame[t].key, frame[t].now)
       IN  /\ items' = r.items
           /\ frame' = [frame EXCEPT ![t] = Returning("get", r.result)]
    /\ pc' = [pc EXCEPT ![t] = "ret"]
    /\ UNCHANGED <<client_vars, clock, lock, expire_buckets, bucket_locks, last_expire_bucket_id>>

\* get_multi, memory.py:213-227
GetMultiLocked(t) ==
    /\ pc[t] = "acquire" /\ frame[t].fn = "get_multi"
    /\ lock = 0
    /\ LET r == get_multi_locked(items, frame[t].keys, frame[t].key_prefix,
                                 frame[t].now)
       IN  /\ items' = r.items
           /\ frame' = [frame EXCEPT ![t] = Returning("get_multi", r.results)]
    /\ pc' = [pc EXCEPT ![t] = "ret"]
    /\ UNCHANGED <<client_vars, clock, lock, expire_buckets, bucket_locks, last_expire_bucket_id>>

\* delete, memory.py:251-261
DeleteLocked(t) ==
    /\ pc[t] = "acquire" /\ frame[t].fn = "delete"
    /\ lock = 0
    /\ LET r == delete_locked(items, frame[t].key, frame[t].now)
       IN  /\ items' = r.items
           /\ frame' = [frame EXCEPT ![t] = Returning("delete", r.result)]
    /\ pc' = [pc EXCEPT ![t] = "ret"]
    /\ UNCHANGED <<client_vars, clock, lock, expire_buckets, bucket_locks, last_expire_bucket_id>>

\* delete_multi, memory.py:281-290
DeleteMultiLocked(t) ==
    /\ pc[t] = "acquire" /\ frame[t].fn = "delete_multi"
    /\ lock = 0
    /\ items' = delete_multi_locked(items, frame[t].keys, frame[t].key_prefix)
    /\ frame' = [frame EXCEPT ![t] = Returning("delete_multi", TRUE)]
    /\ pc' = [pc EXCEPT ![t] = "ret"]
    /\ UNCHANGED <<client_vars, clock, lock, expire_buckets, bucket_locks, last_expire_bucket_id>>

\* flush_all, memory.py:409-411: self.lock is taken and kept, the table is
\* cleared.
FlushLocked(t) ==
    /\ pc[t] = "acquire" /\ frame[t].fn = "flush_all"
    /\ lock = 0
    /\ lock' = t
    /\ items' = <<>>
    /\ frame' = [frame EXCEPT ![t].i = 1]
    /\ pc' = [pc EXCEPT ![t] = "flush_bucket_acquire"]
    /\ UNCHANGED <<client_vars, clock, expire_buckets, bucket_locks, last_expire_bucket_id>>

\* flush_all, memory.py:412-413: bucket_lock.acquire(1) under self.lock
FlushBucketAcquire(t) ==
    /\ pc[t] = "flush_bucket_acquire"
    /\ bucket_locks[frame[t].i] = 0
    /\ bucket_locks' = [bucket_locks EXCEPT ![frame[t].i] = t]
    /\ pc' = [pc EXCEPT ![t] = "flush_bucket_locked"]
    /\ UNCHANGED <<client_vars, clock, items, lock, expire_buckets, last_expire_bucket_id, frame>>

\* flush_all, memory.py:414-420: the bucket is emptied and its lock released;
\* after the last bucket self.lock is released.
FlushBucketLocked(t) ==
    /\ pc[t] = "flush_bucket_locked"
    /\ LET i == frame[t].i
       IN  /\ expire_buckets' = [expire_buckets EXCEPT ![i] = <<>>]
           /\ bucket_locks' = [bucket_locks EXCEPT ![i] = 0]
           /\ IF i < buckets
              THEN /\ frame' = [frame EXCEPT ![t].i = i + 1]
                   /\ pc' = [pc EXCEPT ![t] = "flush_bucket_acquire"]
                   /\ lock' = lock
              ELSE /\ frame' = [frame EXCEPT ![t] = Returning("flush_all", TRUE)]
                   /\ pc' = [pc EXCEPT ![t] = "ret"]
                   /\ lock' = 0
    /\ UNCHANGED <<client_vars, clock, items, last_expire_bucket_id>>

\* The call returns frame[t].result to its caller.
Return(t) ==
    /\ pc[t] = "ret"
    /\ pc' = [pc EXCEPT ![t] = "idle"]
    /\ frame' = [frame EXCEPT ![t] = IdleFrame]
    /\ UNCHANGED <<client_vars, clock, items, lock, expire_buckets, bucket_locks,
                   last_expire_bucket_id>>

\* A second passes.
Tick ==
    /\ clock < MaxNow
    /\ clock' = clock + 1
    /\ UNCHANGED <<client_vars, items, lock, expire_buckets, bucket_locks,
                   last_expire_bucket_id, pc, frame>>

\* The steps of the threads in.threads calling with the inputs in.
NextOf(in) ==
    \/ Tick
    \/ \E t \in in.threads :
        \/ set(t, in) \/ add(t, in) \/ replace(t, in)
        \/ set_multi(t, in) \/ add_multi(t, in) \/ replace_multi(t, in)
        \/ get(t, in) \/ get_multi(t, in) \/ delete(t, in)
        \/ delete_multi(t, in) \/ flush_all(t)
        \/ StoreLocked(t) \/ StoreMultiLocked(t)
        \/ BucketAcquire(t) \/ BucketLocked(t) \/ SweepLocked(t)
        \/ GetLocked(t) \/ GetMultiLocked(t) \/ DeleteLocked(t)
        \/ DeleteMultiLocked(t) \/ FlushLocked(t) \/ FlushBucketAcquire(t)
        \/ FlushBucketLocked(t) \/ Return(t)

Next == NextOf(Inputs)

\* MemoryCache called by one thread after another under a running clock.
Spec == Init /\ [][Next]_vars

NextBulk == NextOf(BulkInputs)

\* MemoryCache under bulk stores of two keys.
SpecBulk == Init /\ [][NextBulk]_vars

\* ------------------------------------------ MemoryCache: the claims' terms

\* An entry is live at `now`: it never expires (expires = 0) or its expiry
\* is not before now.
Live(d, key, now) ==
    key \in DOMAIN d /\ (d[key].expires = 0 \/ d[key].expires >= now)

\* Thread t runs the section under self.lock of the call it entered.
RunsSection(t) == pc[t] = "acquire" /\ pc'[t] # "acquire"

\* The table keys a bulk call names.
Prefixed(f) == {f.key_prefix \o f.keys[i] : i \in DOMAIN f.keys}

\* Thread t's step is one that may overwrite or remove key k by contract:
\* set, replace, delete (or their bulk forms) on k, or flush_all.
Overwrites(t, k) ==
    /\ RunsSection(t)
    /\ \/ frame[t].fn = "store" /\ frame[t].op \in {0, 2} /\ frame[t].key = k
       \/ frame[t].fn = "store_multi" /\ frame[t].op \in {0, 2}
          /\ k \in Prefixed(frame[t])
       \/ frame[t].fn = "delete" /\ frame[t].key = k
       \/ frame[t].fn = "delete_multi" /\ k \in Prefixed(frame[t])
       \/ frame[t].fn = "flush_all"

\* C1: an entry written with time <= 0 (expires = 0) never expires: until
\* it is overwritten, deleted or flushed it stays in the table, get returns
\* its value and add returns False.
C1_NeverExpires ==
    [][\A k \in Keys :
          (k \in DOMAIN items /\ items[k].expires = 0) =>
             /\ (\E t \in Threads : Overwrites(t, k))
                \/ (k \in DOMAIN items' /\ items'[k] = items[k])
             /\ \A t \in Threads :
                   RunsSection(t) /\ frame[t].key = k =>
                      /\ frame[t].fn = "get" =>
                            frame'[t].result = items[k].value
                      /\ (frame[t].fn = "store" /\ frame[t].op = 1) =>
                            frame'[t].result = FALSE]_vars

\* C3: replace returns False and leaves no entry for the key when the key
\* has no live entry (absent, or present and expired), and returns True and
\* stores the value only when a live entry exists.
C3_ReplaceNeedsLive ==
    [][\A t \in Threads :
          (RunsSection(t) /\ frame[t].fn = "store" /\ frame[t].op = 2) =>
             LET f == frame[t]
             IN  IF Live(items, f.key, f.now)
                 THEN /\ frame'[t].result = TRUE
                      /\ f.key \in DOMAIN items'
                      /\ items'[f.key] = CacheItem(f.key, f.value, f.time)
                 ELSE /\ frame'[t].result = FALSE
                      /\ f.key \notin DOMAIN items']_vars

\* C4: get and get_multi never return an entry whose positive expiry is
\* before the clock value the read uses, and such an entry is gone from the
\* table after the read; get_multi returns exactly the requested keys that
\* are present and live, under the caller's unprefixed keys.
C4_ReadsSkipExpired ==
    [][\A t \in Threads :
          LET f == frame[t]
              lapsed(key) == /\ key \in DOMAIN items
                             /\ items[key].expires > 0
                             /\ items[key].expires < f.now
              found == {f.keys[i] : i \in DOMAIN f.keys}
              live == {k \in found : Live(items, f.key_prefix \o k, f.now)}
          IN  /\ (RunsSection(t) /\ f.fn = "get" /\ lapsed(f.key)) =>
                    frame'[t].result = None /\ f.key \notin DOMAIN items'
              /\ (RunsSection(t) /\ f.fn = "get_multi") =>
                    /\ \A k \in found : lapsed(f.key_prefix \o k) =>
                          (f.key_prefix \o k) \notin DOMAIN items'
                    /\ DOMAIN frame'[t].result = live
                    /\ \A k \in live :
                          frame'[t].result[k] = items[f.key_prefix \o k].value]_vars

\* ------------------------------------ whole calls, run without interleaving

\* The table, the buckets and the last swept bucket id.
Cache == [items |-> items, expire_buckets |-> expire_buckets,
          last_expire_bucket_id |-> last_expire_bucket_id]

\* store, memory.py:292-341, run from cache state c at clock value now.
store_call(c, key, value, time, now, op) ==
    LET expiry == expires(now, time)
        a == store_locked(c.items, key, value, expiry, now, op)
        b == store_bucket(c.expire_buckets, c.last_expire_bucket_id, now, key, expiry)
    IN  IF a.result /\ expiry > 0
        THEN [items |-> IF b.expired_keys # <<>>
                        THEN delete_multi_locked(a.items, b.expired_keys, "")
                        ELSE a.items,
              expire_buckets |-> b.expire_buckets,
              last_expire_bucket_id |-> b.last_expire_bucket_id,
              result |-> TRUE]
        ELSE [items |-> a.items, expire_buckets |-> c.expire_buckets,
              last_expire_bucket_id |-> c.last_expire_bucket_id,
              result |-> a.result]

\* store_multi, memory.py:343-399, run from cache state c at clock value now.
store_multi_call(c, keys, value, time, key_prefix, now, op) ==
    LET expiry == expires(now, time)
        a == store_multi_locked(c.items, keys, key_prefix, value, expiry, now, op)
        b == store_multi_bucket(c.expire_buckets, c.last_expire_bucket_id, now,
                                a.succeeded)
    IN  IF expiry > 0 /\ a.succeeded # <<>>
        THEN [items |-> IF b.expired_keys # <<>>
                        THEN delete_multi_locked(a.items, b.expired_keys, "")
                        ELSE a.items,
              expire_buckets |-> b.expire_buckets,
              last_expire_bucket_id |-> b.last_expire_bucket_id,
              result |-> a.keys_failed]
        ELSE [items |-> a.items, expire_buckets |-> c.expire_buckets,
              last_expire_bucket_id |-> c.last_expire_bucket_id,
              result |-> a.keys_failed]

\* C2: of the adds on a key that has no live entry, made with a positive
\* time that has not elapsed, exactly one returns True: the first add
\* returns True, the add after it returns False, and the table keeps the
\* first add's value.
C2_SingleWinner ==
    (\A t \in Threads : pc[t] = "idle") =>
       \A k \in Keys, v1 \in Values, v2 \in Values, time \in {x \in Times : x > 0} :
          ~Live(items, k, clock) =>
             LET first == store_call(Cache, k, v1, time, clock, 1)
                 second == store_call(first, k, v2, time, clock, 1)
             IN  /\ first.result = TRUE
                 /\ second.result = FALSE
                 /\ k \in DOMAIN second.items
                 /\ second.items[k].value = v1

RECURSIVE SingleStores(_, _, _, _, _, _, _, _)
\* The single-key stores of key_prefix + keys[i], keys[i+1], ... one after
\* another from cache state c: the state they leave and the keys whose store
\* returned False.
SingleStores(c, keys, i, value, time, key_prefix, now, op) ==
    IF i > Len(keys)
    THEN [items |-> c.items, failed |-> {}]
    ELSE LET r == store_call(c, key_prefix \o keys[i], value, time, now, op)
             rest == SingleStores(r, keys, i + 1, value, time, key_prefix, now, op)
         IN  [items |-> rest.items,
              failed |-> (IF r.result THEN {} ELSE {keys[i]}) \cup rest.failed]

\* The orders in which the keys of a mapping may be taken.
Orders(keys) ==
    {o \in [DOMAIN keys -> {keys[i] : i \in DOMAIN keys}] :
        \A i, j \in DOMAIN keys : i # j => o[i] # o[j]}

\* C5: from every table state, store_multi returns exactly the unprefixed
\* keys whose single-key store (same mode, same clock value) returns False,
\* and leaves the table as those single-key stores, made in some order,
\* leave it.
C5_BulkEqualsSingles ==
    (\A t \in Threads : pc[t] = "idle") =>
       \A kl \in KeyLists, value \in Values, time \in Times, op \in 0 .. 2 :
          LET m == store_multi_call(Cache, kl[2], value, time, kl[1], clock, op)
          IN  \E o \in Orders(kl[2]) :
                 LET s == SingleStores(Cache, o, 1, value, time, kl[1], clock, op)
                 IN  /\ {m.result[i] : i \in DOMAIN m.result} = s.failed
                     /\ m.items = s.items

\* ------------------------------------------- the cache behind the client

\* patterns.py:89, wait_time = 0.05: a tick is 0.05 s, a second 20 ticks.
TicksPerSecond == 20
\* The last value of ticks, and the last under OnePassInputs.
MaxTicks == 44
MaxPassTicks == 24

\* int(time())
Seconds == ticks \div TicksPerSecond

\* The entry of key is there for a client at second now: the cache drops
\* an entry stored with a time above 0 when that time has passed.
client_live(c, key, now) ==
    key \in DOMAIN c /\ (c[key].expires = 0 \/ now < c[key].expires)

\* MemcachedClient.add, memcache.py:50-54: the cache stores the value if
\* and only if it holds none for the key, in one step.
client_add(c, key, value, time, now) ==
    IF client_live(c, key, now)
    THEN [cache |-> c, result |-> FALSE]
    ELSE [cache |-> DictSet(c, key, [value |-> value,
                                     expires |-> IF time > 0 THEN now + time ELSE 0]),
          result |-> TRUE]

\* MemcachedClient.get, memcache.py:91-94
client_get(c, key, now) == IF client_live(c, key, now) THEN c[key].value ELSE None

\* MemcachedClient.delete, memcache.py:108-111
client_delete(c, key) == DictDel(c, key)

\* MemcachedClient.delete_multi, memcache.py:113-119
client_delete_multi(c, keys) ==
    [x \in DOMAIN c \ {keys[i] : i \in DOMAIN keys} |-> c[x]]

\* MemcachedClient.incr, memcache.py:121-138, called without initial_value
client_incr(c, key, delta, now) ==
    IF client_live(c, key, now)
    THEN [cache |-> [c EXCEPT ![key].value = @ + delta],
          result |-> c[key].value + delta]
    ELSE [cache |-> c, result |-> None]

\* Time passes for the clients of the cache, in.tick ticks at a time.
TickClient(in) ==
    /\ ticks + in.tick <= in.max_ticks
    /\ ticks' = ticks + in.tick
    /\ UNCHANGED <<memory_vars, cache, dependency, calls, pc, frame>>

\* ------------------------------------------------------------- OnePass

\* OnePass(cache, 'op', time=1): the key and the seconds the marker lives.
OnePassKey == "op"
OnePassTime == 1
\* patterns.py:89 and 95, wait_time = 0.05 and its cap 0.8, in ticks
InitialWaitTime == 1
MaxWaitTime == 16

\* OnePass.__init__, patterns.py:67-72, and the locals of __enter__ (marker)
\* and wait (expected, current for its marker, timeout, wait_time; wake is
\* the tick sleep returns at; result is what wait returned).
OnePassFrame ==
    [acquired |-> FALSE, marker |-> None, expected |-> None, current |-> None,
     timeout |-> 0, wait_time |-> 0, wake |-> 0, result |-> FALSE]

\* Three instances; wait is called with a timeout of 0.1 s; the time is
\* looked at every 0.2 s.
OnePassInputs ==
    [instances |-> {1, 2, 3}, timeouts |-> {2}, tick |-> 4,
     max_ticks |-> MaxPassTicks]

\* Two instances; wait is called with no timeout (0), 0.1 s and 0.4 s.
WaitInputs ==
    [instances |-> {1, 2}, timeouts |-> {0, 2, 8}, tick |-> 1,
     max_ticks |-> MaxTicks]

InitOnePass(in) ==
    /\ InitMemory
    /\ InitClient
    /\ pc = [i \in in.instances |-> "new"]
    /\ frame = [i \in in.instances |-> OnePassFrame]

\* __enter__, patterns.py:75: marker = int(time())
OnePassEnter(i) ==
    /\ pc[i] = "new"
    /\ frame' = [frame EXCEPT ![i].marker = Seconds]
    /\ pc' = [pc EXCEPT ![i] = "add"]
    /\ UNCHANGED <<memory_vars, client_vars>>

\* __enter__ storing the marker with set: the store always succeeds.
OnePassAdd_set(i) ==
    /\ pc[i] = "add"
    /\ cache' = DictSet(cache, OnePassKey,
                        [value |-> frame[i].marker, expires |-> Seconds + OnePassTime])
    /\ frame' = [frame EXCEPT ![i].acquired = TRUE]
    /\ pc' = [pc EXCEPT ![i] = "entered"]
    /\ UNCHANGED <<memory_vars, ticks, dependency, calls>>

\* __enter__, patterns.py:76-78: self.acquired = self.cache.add(...)
OnePassAdd(i) ==
    /\ pc[i] = "add"
    /\ LET r == client_add(cache, OnePassKey, frame[i].marker, OnePassTime, Seconds)
       IN  /\ cache' = r.cache
           /\ frame' = [frame EXCEPT ![i].acquired = r.result]
    /\ pc' = [pc EXCEPT ![i] = "entered"]
    /\ UNCHANGED <<memory_vars, ticks, dependency, calls>>

\* wait, patterns.py:90: what the while test leads to with the locals of f:
\* sleep(wait_time), or return False.
WaitLoop(f, now) ==
    IF f.timeout > 0 /\ f.expected = f.current
    THEN [pc |-> "sleep", frame |-> [f EXCEPT !.wake = now + f.wait_time]]
    ELSE [pc |-> "waited", frame |-> [f EXCEPT !.result = FALSE]]

\* wait, patterns.py:86-90: on an instance that has not acquired, the first
\* read of the marker; timeout 0 stands for None.
OnePassWait(i, in) == \E timeout \in in.timeouts :
    /\ pc[i] = "entered"
    /\ ~frame[i].acquired
    /\ LET marker == client_get(cache, OnePassKey, Seconds)
           r == WaitLoop([frame[i] EXCEPT
                             !.expected = marker, !.current = marker,
                             !.timeout = IF timeout # 0 THEN timeout
                                         ELSE OnePassTime * TicksPerSecond,
                             !.wait_time = InitialWaitTime], ticks)
       IN  /\ frame' = [frame EXCEPT ![i] = r.frame]
           /\ pc' = [pc EXCEPT ![i] = r.pc]
    /\ UNCHANGED <<memory_vars, client_vars>>

\* wait without `if marker is None: return True`: a marker that is gone
\* ends the loop as a changed marker does.
OnePassPoll_no_return(i) ==
    /\ pc[i] = "sleep"
    /\ ticks >= frame[i].wake
    /\ LET f == frame[i]
           marker == client_get(cache, OnePassKey, Seconds)
           wait_time == IF f.wait_time < MaxWaitTime THEN f.wait_time * 2
                        ELSE f.wait_time
           r == WaitLoop([f EXCEPT !.current = marker, !.wait_time = wait_time,
                                   !.timeout = f.timeout - wait_time], ticks)
       IN  /\ frame' = [frame EXCEPT ![i] = r.frame]
           /\ pc' = [pc EXCEPT ![i] = r.pc]
    /\ UNCHANGED <<memory_vars, client_vars>>

\* wait that leaves its budget as it is after a sleep.
OnePassPoll_no_charge(i) ==
    /\ pc[i] = "sleep"
    /\ ticks >= frame[i].wake
    /\ LET f == frame[i]
           marker == client_get(cache, OnePassKey, Seconds)
           wait_time == IF f.wait_time < MaxWaitTime THEN f.wait_time * 2
                        ELSE f.wait_time
           r == WaitLoop([f EXCEPT !.current = marker, !.wait_time = wait_time], ticks)
       IN  IF marker = None
           THEN /\ frame' = [frame EXCEPT ![i].current = marker, ![i].result = TRUE]
                /\ pc' = [pc EXCEPT ![i] = "waited"]
           ELSE /\ frame' = [frame EXCEPT ![i] = r.frame]
                /\ pc' = [pc EXCEPT ![i] = r.pc]
    /\ UNCHANGED <<memory_vars, client_vars>>

\* wait, patterns.py:91-98: sleep has returned; the marker is read again.
OnePassPoll(i) ==
    /\ pc[i] = "sleep"
    /\ ticks >= frame[i].wake
    /\ LET f == frame[i]
           marker == client_get(cache, OnePassKey, Seconds)
           wait_time == IF f.wait_time < MaxWaitTime THEN f.wait_time * 2
                        ELSE f.wait_time
           r == WaitLoop([f EXCEPT !.current = marker, !.wait_time = wait_time,
                                   !.timeout = f.timeout - wait_time], ticks)
       IN  IF marker = None
           THEN /\ frame' = [frame EXCEPT ![i].current = marker, ![i].result = TRUE]
                /\ pc' = [pc EXCEPT ![i] = "waited"]
           ELSE /\ frame' = [frame EXCEPT ![i] = r.frame]
                /\ pc' = [pc EXCEPT ![i] = r.pc]
    /\ UNCHANGED <<memory_vars, client_vars>>

\* __exit__ that deletes the key and leaves acquired as it is.
OnePassExit_keeps(i) ==
    /\ pc[i] \in {"entered", "waited", "exited"}
    /\ IF frame[i].acquired
       THEN cache' = client_delete(cache, OnePassKey)
       ELSE cache' = cache
    /\ frame' = [frame EXCEPT ![i] = [OnePassFrame EXCEPT
                     !.marker = frame[i].marker, !.acquired = frame[i].acquired]]
    /\ pc' = [pc EXCEPT ![i] = "exited"]
    /\ UNCHANGED <<memory_vars, ticks, dependency, calls>>

\* __exit__, patterns.py:100-103, also when called again after an exit
OnePassExit(i) ==
    /\ pc[i] \in {"entered", "waited", "exited"}
    /\ IF frame[i].acquired
       THEN cache' = client_delete(cache, OnePassKey)
       ELSE cache' = cache
    /\ frame' = [frame EXCEPT ![i] = [OnePassFrame EXCEPT !.marker = frame[i].marker]]
    /\ pc' = [pc EXCEPT ![i] = "exited"]
    /\ UNCHANGED <<memory_vars, ticks, dependency, calls>>

NextOnePassOf(in) ==
    \/ TickClient(in)
    \/ \E i \in in.instances :
        \/ OnePassEnter(i) \/ OnePassAdd(i) \/ OnePassWait(i, in)
        \/ OnePassPoll(i) \/ OnePassExit(i)

NextOnePass == NextOnePassOf(OnePassInputs)

\* Three OnePass instances on one key.
SpecOnePass == InitOnePass(OnePassInputs) /\ [][NextOnePass]_vars

NextWait == NextOnePassOf(WaitInputs)

\* Two OnePass instances on one key, the one that has not acquired waiting.
SpecWait == InitOnePass(WaitInputs) /\ [][NextWait]_vars

\* ------------------------------------------------- OnePass: the claims

\* The instances whose acquired is true.
Holders == {i \in DOMAIN pc : frame[i].acquired}

\* No marker's time has run out: every instance that has read its marker
\* did so less than OnePassTime seconds ago.
NoLapse ==
    \A i \in DOMAIN pc : pc[i] # "new" => Seconds < frame[i].marker + OnePassTime

\* C6: from the key absent and while no marker's time has lapsed, at most
\* one instance has acquired = true, and exactly one has while the key is in
\* the cache and while instances have entered and none has left.
C6_ExactlyOneAcquired ==
    NoLapse =>
       /\ Cardinality(Holders) <= 1
       /\ client_live(cache, OnePassKey, Seconds) => Cardinality(Holders) = 1
       /\ ((\E i \in DOMAIN pc : pc[i] \in {"entered", "sleep", "waited"})
           /\ (\A i \in DOMAIN pc : pc[i] # "exited")) => Cardinality(Holders) = 1

\* All three instances have entered within the marker's time: one acquired.
C6_Witness ==
    /\ NoLapse
    /\ \A i \in DOMAIN pc : pc[i] = "entered"
    /\ Cardinality(DOMAIN pc) = 3
    /\ Cardinality(Holders) = 1

\* Instance i's step is a re-read of the marker in wait.
Polls(i) == pc[i] = "sleep" /\ frame'[i] # frame[i]

\* C7: with two instances, wait returns True at the re-read that finds the
\* key gone (deleted by the acquirer's exit, or lapsed), and at no other;
\* while the re-reads find the same marker it goes on until the budget is
\* used up and then returns False.
C7_WaitResult ==
    [][\A i \in DOMAIN pc :
          LET present == client_live(cache, OnePassKey, Seconds)
              returns(b) == pc'[i] = "waited" /\ frame'[i].result = b
          IN  /\ Polls(i) => (returns(TRUE) <=> ~present)
              /\ (Polls(i) /\ present) =>
                    /\ frame'[i].current = frame'[i].expected
                    /\ IF frame'[i].timeout <= 0 THEN returns(FALSE)
                       ELSE pc'[i] = "sleep"
              /\ (pc[i] # "waited" /\ returns(FALSE)) =>
                    /\ frame'[i].timeout <= 0
                    /\ Polls(i) /\ present]_vars

\* The acquirer has left before the waiter's budget was used up, and wait
\* returned True.
C7_Witness ==
    \E i, j \in DOMAIN pc :
       /\ pc[j] = "exited" /\ pc[i] = "waited"
       /\ frame[i].result = TRUE /\ frame[i].expected # None
       /\ frame[i].timeout > 0

\* ---------------------------------------------------------- get_or_add

GetOrAddKey == "k"

\* The arguments of a get_or_add call (created stands for create_factory:
\* what it returns; dependency_factory: whether one is passed) and its
\* locals; called tells that create_factory was invoked.
GetOrAddFrame ==
    [time |-> 0, dependency_factory |-> FALSE, result |-> None,
     succeed |-> FALSE, called |-> FALSE]

\* Three callers with factories of their own; the third caller's factory
\* may return None.  The time is looked at every second.
GetOrAddInputs ==
    [callers |-> {1, 2, 3}, times |-> {0, 1},
     created |-> [c \in {1, 2, 3} |-> IF c = 3 THEN {13, None} ELSE {10 + c}],
     tick |-> TicksPerSecond, max_ticks |-> MaxTicks]

InitGetOrAdd(in) ==
    /\ InitMemory
    /\ InitClient
    /\ pc = [c \in in.callers |-> "idle"]
    /\ frame = [c \in in.callers |-> GetOrAddFrame]

\* get_or_add, patterns.py:17-19: result = cache.get(key, namespace)
get_or_add(c, in) == \E time \in in.times, dependency_factory \in BOOLEAN :
    /\ pc[c] = "idle"
    /\ LET result == client_get(cache, GetOrAddKey, Seconds)
       IN  /\ frame' = [frame EXCEPT ![c] =
                  [GetOrAddFrame EXCEPT !.time = time, !.result = result,
                                        !.dependency_factory = dependency_factory]]
           /\ pc' = [pc EXCEPT ![c] = IF result # None THEN "done" ELSE "create"]
    /\ UNCHANGED <<memory_vars, client_vars>>

\* get_or_add, patterns.py:20-21: result = create_factory()
GetOrAddCreate(c, in) == \E result \in in.created[c] :
    /\ pc[c] = "create"
    /\ frame' = [frame EXCEPT ![c].result = result, ![c].called = TRUE]
    /\ pc' = [pc EXCEPT ![c] = IF result # None THEN "add" ELSE "done"]
    /\ UNCHANGED <<memory_vars, client_vars>>

\* get_or_set's store, patterns.py:42-43, in the place of the add: the
\* value is set whatever the cache holds.
GetOrAddAdd_set(c) ==
    /\ pc[c] = "add"
    /\ cache' = DictSet(cache, GetOrAddKey,
                        [value |-> frame[c].result,
                         expires |-> IF frame[c].time > 0
                                     THEN Seconds + frame[c].time ELSE 0])
    /\ frame' = [frame EXCEPT ![c].succeed = TRUE]
    /\ pc' = [pc EXCEPT ![c] = IF frame[c].dependency_factory
                               THEN "register" ELSE "done"]
    /\ UNCHANGED <<memory_vars, ticks, dependency, calls>>

\* get_or_add, patterns.py:22-23: succeed = cache.add(key, result, time, ...)
GetOrAddAdd(c) ==
    /\ pc[c] = "add"
    /\ LET r == client_add(cache, GetOrAddKey, frame[c].result, frame[c].time,
                           Seconds)
       IN  /\ cache' = r.cache
           /\ frame' = [frame EXCEPT ![c].succeed = r.result]
           /\ pc' = [pc EXCEPT ![c] = IF r.result /\ frame[c].dependency_factory
                                      THEN "register" ELSE "done"]
    /\ UNCHANGED <<memory_vars, ticks, dependency, calls>>

\* get_or_add, patterns.py:24-25: dependency.add(key, namespace), recorded
\* with the caller that made it.
GetOrAddRegister(c) ==
    /\ pc[c] = "register"
    /\ dependency' = Append(dependency, [key |-> GetOrAddKey, by |-> c])
    /\ pc' = [pc EXCEPT ![c] = "done"]
    /\ UNCHANGED <<memory_vars, ticks, cache, calls, frame>>

NextGetOrAddOf(in) ==
    \/ TickClient(in)
    \/ \E c \in in.callers :
        \/ get_or_add(c, in) \/ GetOrAddCreate(c, in) \/ GetOrAddAdd(c)
        \/ GetOrAddRegister(c)

NextGetOrAdd == NextGetOrAddOf(GetOrAddInputs)

\* Three callers of get_or_add on one key that is absent at first.
SpecGetOrAdd == InitGetOrAdd(GetOrAddInputs) /\ [][NextGetOrAdd]_vars

\* The calls whose add succeeded.
Winners == {c \in DOMAIN pc : frame[c].succeed}

\* The registrations dependency.add received from caller c.
Registered(c) == Cardinality({n \in DOMAIN dependency : dependency[n].by = c})

MaxCalls == 4

\* Locker.define, lockout.py:28: the lockout's key_prefix.
key_prefix == "c:"

\* Counter, lockout.py:34-45: the lockout's counters; key_func names the
\* part of the context a counter counts by; alert tells whether the
\* counter has an alert callback.
counters ==
    << [key_func |-> "user", count |-> 2, period |-> 2, duration |-> 2, reset |-> TRUE,
        alert |-> TRUE],
       [key_func |-> "ip", count |-> 3, period |-> 3, duration |-> 1, reset |-> FALSE,
        alert |-> FALSE],
       [key_func |-> "host", count |-> 1, period |-> 1, duration |-> 1, reset |-> TRUE,
        alert |-> TRUE] >>

\* The contexts of the guarded calls: two users behind one address.
Contexts ==
    {[user |-> "u1", ip |-> "i1", host |-> "h1"],
     [user |-> "u2", ip |-> "i1", host |-> "h1"]}

\* lockout.py:75, key = self.key_prefix + c.key_func(ctx)
KeyOf(c, ctx) == key_prefix \o ctx[counters[c].key_func]
\* lockout.py:82, 'lock:' + key
LockKeyOf(c, ctx) == "lock:" \o KeyOf(c, ctx)

RECURSIVE ResetKeysFrom(_, _)
\* lockout.py:70-71, the keys of the counters c, c+1, ... that have reset
ResetKeysFrom(c, ctx) ==
    IF c > Len(counters) THEN <<>>
    ELSE (IF counters[c].reset THEN <<KeyOf(c, ctx)>> ELSE <<>>)
         \o ResetKeysFrom(c + 1, ctx)

ResetKeys(ctx) == ResetKeysFrom(1, ctx)

\* The arguments and locals of guard_wrapper: succeed is what func
\* returned, c the counter the loop is at, since the second the call began,
\* alerts the counters whose alert the call has invoked with (ctx, name, c).
GuardFrame ==
    [ctx |-> [user |-> "", ip |-> "", host |-> ""], succeed |-> FALSE, c |-> 0,
     max_try |-> None, since |-> 0, alerts |-> <<>>]

\* One caller making one guarded call after another.
LockoutInputs ==
    [callers |-> {1}, contexts |-> Contexts, tick |-> TicksPerSecond,
     max_ticks |-> MaxTicks]

InitLockout(in) ==
    /\ InitMemory
    /\ InitClient
    /\ pc = [t \in in.callers |-> "idle"]
    /\ frame = [t \in in.callers |-> GuardFrame]

\* guard_wrapper, lockout.py:67-69 and 73-74: succeed = func(ctx, ...)
guard_wrapper(t, in) == \E ctx \in in.contexts, succeed \in BOOLEAN :
    /\ pc[t] = "idle"
    /\ Len(calls) + Cardinality({u \in in.callers : pc[u] # "idle"}) < MaxCalls
    /\ frame' = [frame EXCEPT ![t] =
           [GuardFrame EXCEPT !.ctx = ctx, !.succeed = succeed, !.c = 1,
                              !.since = Seconds]]
    /\ pc' = [pc EXCEPT ![t] = IF succeed THEN "reset"
                               ELSE IF Len(counters) > 0 THEN "add" ELSE "ret"]
    /\ UNCHANGED <<memory_vars, client_vars>>

\* The delete_multi of every counter's key, whatever its reset.
GuardReset_all(t) ==
    /\ pc[t] = "reset"
    /\ cache' = client_delete_multi(cache,
                    [c \in DOMAIN counters |-> KeyOf(c, frame[t].ctx)])
    /\ pc' = [pc EXCEPT ![t] = "ret"]
    /\ UNCHANGED <<memory_vars, ticks, dependency, calls, frame>>

\* guard_wrapper, lockout.py:69-72: on success the keys of the counters
\* that have reset are deleted, if there are any.
GuardReset(t) ==
    /\ pc[t] = "reset"
    /\ LET keys == ResetKeys(frame[t].ctx)
       IN  cache' = IF keys # <<>> THEN client_delete_multi(cache, keys) ELSE cache
    /\ pc' = [pc EXCEPT ![t] = "ret"]
    /\ UNCHANGED <<memory_vars, ticks, dependency, calls, frame>>

\* The threshold met only above count.
Reached_above(max_try, count) == max_try # None /\ max_try > count

\* lockout.py:80, max_try >= c.count; None is below every number.
Reached(max_try, count) == max_try # None /\ max_try >= count

\* lockout.py:74, the loop goes on to the next counter or ends.
NextCounter(f) ==
    IF f.c < Len(counters)
    THEN [pc |-> "add", frame |-> [f EXCEPT !.c = f.c + 1]]
    ELSE [pc |-> "ret", frame |-> f]

\* lockout.py:80, after max_try is known
AfterTry(f, max_try) ==
    IF Reached(max_try, counters[f.c].count)
    THEN [pc |-> "delete", frame |-> [f EXCEPT !.max_try = max_try]]
    ELSE NextCounter([f EXCEPT !.max_try = max_try])

\* lockout.py:75-78: self.cache.add(key, 1, c.period, ...) and 1
GuardAdd(t) ==
    /\ pc[t] = "add"
    /\ LET f == frame[t]
           r == client_add(cache, KeyOf(f.c, f.ctx), 1, counters[f.c].period, Seconds)
           n == AfterTry(f, 1)
       IN  /\ cache' = r.cache
           /\ IF r.result
              THEN frame' = [frame EXCEPT ![t] = n.frame] /\ pc' = [pc EXCEPT ![t] = n.pc]
              ELSE frame' = frame /\ pc' = [pc EXCEPT ![t] = "incr"]
    /\ UNCHANGED <<memory_vars, ticks, dependency, calls>>

\* lockout.py:78: ... or self.cache.incr(key, 1, self.namespace)
GuardIncr(t) ==
    /\ pc[t] = "incr"
    /\ LET f == frame[t]
           r == client_incr(cache, KeyOf(f.c, f.ctx), 1, Seconds)
           n == AfterTry(f, r.result)
       IN  /\ cache' = r.cache
           /\ frame' = [frame EXCEPT ![t] = n.frame]
           /\ pc' = [pc EXCEPT ![t] = n.pc]
    /\ UNCHANGED <<memory_vars, ticks, dependency, calls>>

\* lockout.py:81: self.cache.delete(key, 0, self.namespace)
GuardDelete(t) ==
    /\ pc[t] = "delete"
    /\ cache' = client_delete(cache, KeyOf(frame[t].c, frame[t].ctx))
    /\ pc' = [pc EXCEPT ![t] = "lock"]
    /\ UNCHANGED <<memory_vars, ticks, dependency, calls, frame>>

\* lockout.py:84, c.alert and c.alert(ctx, self.name, c)
Alert(f) ==
    IF counters[f.c].alert THEN [f EXCEPT !.alerts = Append(@, f.c)] ELSE f

\* lockout.py:82-84: self.cache.add('lock:' + key, 1, c.duration, ...),
\* then the alert.
GuardLock(t) ==
    /\ pc[t] = "lock"
    /\ LET f == frame[t]
           r == client_add(cache, LockKeyOf(f.c, f.ctx), 1, counters[f.c].duration,
                           Seconds)
           n == NextCounter(Alert(f))
       IN  /\ cache' = r.cache
           /\ frame' = [frame EXCEPT ![t] = n.frame]
           /\ pc' = [pc EXCEPT ![t] = n.pc]
    /\ UNCHANGED <<memory_vars, ticks, dependency, calls>>

\* lockout.py:85: return succeed; the call is recorded with its seconds.
GuardReturn(t) ==
    /\ pc[t] = "ret"
    /\ calls' = Append(calls, [ctx |-> frame[t].ctx, succeed |-> frame[t].succeed,
                               since |-> frame[t].since, until |-> Seconds,
                               result |-> frame[t].succeed])
    /\ frame' = [frame EXCEPT ![t] = GuardFrame]
    /\ pc' = [pc EXCEPT ![t] = "idle"]
    /\ UNCHANGED <<memory_vars, ticks, cache, dependency>>

NextLockoutOf(in) ==
    \/ TickClient(in)
    \/ \E t \in in.callers :
        \/ guard_wrapper(t, in) \/ GuardReset(t) \/ GuardAdd(t) \/ GuardIncr(t)
        \/ GuardDelete(t) \/ GuardLock(t) \/ GuardReturn(t)

NextLockout == NextLockoutOf(LockoutInputs)

\* One caller's guarded calls under a lockout of three counters.
SpecLockout == InitLockout(LockoutInputs) /\ [][NextLockout]_vars

\* ------------------------------------------------- Lockout: the claims

\* The recorded calls that counter c counts under the key it has for ctx.
CallsOn(c, ctx) ==
    LET On(x) == KeyOf(c, x.ctx) = KeyOf(c, ctx)
    IN  SelectSeq(calls, On)

\* The calls s are failures only, made inside one period of counter c.
FailuresInPeriod(s, c) ==
    /\ Len(s) >= 1
    /\ \A n \in DOMAIN s : ~s[n].succeed
    /\ s[Len(s)].until - s[1].since < counters[c].period

\* C9: when all the calls made on a dimension are k failures inside one
\* period of a counter with threshold count, the lock key is absent for
\* k < count, and for k = count it is in the cache with the counter's
\* duration (and found there when no second has passed since the call
\* began); every call returned what the guarded function returned.
C9_LockAtThreshold ==
    (\A t \in DOMAIN pc : pc[t] = "idle") =>
       /\ \A n \in DOMAIN calls : calls[n].result = calls[n].succeed
       /\ \A c \in DOMAIN counters, ctx \in Contexts :
             LET s == CallsOn(c, ctx)
                 k == Len(s)
                 lock_key == LockKeyOf(c, ctx)
             IN  FailuresInPeriod(s, c) =>
                    /\ k < counters[c].count => lock_key \notin DOMAIN cache
                    /\ k = counters[c].count =>
                          /\ lock_key \in DOMAIN cache
                          /\ cache[lock_key].expires >= s[k].since + counters[c].duration
                          /\ cache[lock_key].expires <= s[k].until + counters[c].duration
                          /\ Seconds = s[k].since =>
                                client_live(cache, lock_key, Seconds)

\* Three failures from one address inside the period of the counter by
\* address, whose count is 3: the address is locked.
C9_Witness ==
    /\ \A t \in DOMAIN pc : pc[t] = "idle"
    /\ \E ctx \in Contexts :
          /\ FailuresInPeriod(CallsOn(2, ctx), 2)
          /\ Len(CallsOn(2, ctx)) = counters[2].count
          /\ client_live(cache, LockKeyOf(2, ctx), Seconds)
          /\ LockKeyOf(1, ctx) \notin DOMAIN cache

\* Caller t takes the step it is at.
Steps(t) == <<pc[t], frame[t]>>' # <<pc[t], frame[t]>>

\* C10: the reset step of a successful call removes from the cache the keys
\* of the counters with reset for the call's context and nothing else (the
\* keys of counters without reset and the lock keys stay as they are), the
\* rest of the call changes nothing, and the failure that follows the
\* success counts 1 under those keys.
C10_SuccessResets ==
    [][\A t \in DOMAIN pc :
          LET f == frame[t]
              reset_keys == {KeyOf(c, f.ctx) :
                                c \in {x \in DOMAIN counters : counters[x].reset}}
              last == calls[Len(calls)]
          IN  /\ (pc[t] = "reset" /\ Steps(t)) =>
                    /\ DOMAIN cache' = DOMAIN cache \ reset_keys
                    /\ \A k \in DOMAIN cache' : cache'[k] = cache[k]
              /\ (pc[t] = "ret" /\ f.succeed /\ Steps(t)) => cache' = cache
              /\ (/\ pc[t] = "add" /\ Steps(t) /\ counters[f.c].reset
                  /\ Len(calls) > 0 /\ last.succeed
                  /\ KeyOf(f.c, last.ctx) = KeyOf(f.c, f.ctx)) =>
                    /\ frame'[t].max_try = 1
                    /\ pc'[t] # "incr"]_vars

\* A success after a failure of the same context has deleted the count by
\* user; the count by address and the lock by host are still there.
C10_Witness ==
    \E t \in DOMAIN pc :
       /\ pc[t] = "ret" /\ frame[t].succeed
       /\ Len(calls) > 0
       /\ ~calls[Len(calls)].succeed /\ calls[Len(calls)].ctx = frame[t].ctx
       /\ KeyOf(1, frame[t].ctx) \notin DOMAIN cache
       /\ KeyOf(2, frame[t].ctx) \in DOMAIN cache
       /\ LockKeyOf(3, frame[t].ctx) \in DOMAIN cache

\* -------------------------------------------------------- forbid_locked

\* MemcachedClient.get_multi, memcache.py:96-106: the keys found, with their
\* values.
client_get_multi(c, keys, now) ==
    LET found == {keys[i] : i \in {j \in DOMAIN keys : client_live(c, keys[j], now)}}
    IN  [k \in found |-> c[k].value]

\* lockout.py:92 and 96, the lock keys of all counters for ctx
LockKeys(ctx) == [c \in DOMAIN counters |-> LockKeyOf(c, ctx)]

\* What self.forbid_action(ctx) returns.
forbid_action(ctx) == 403

\* The arguments and locals of forbid_locked_wrapper: returns is what func
\* returns when called; invoked and forbidden count the calls of func and
\* of forbid_action.
ForbidFrame ==
    [ctx |-> [user |-> "", ip |-> "", host |-> ""], returns |-> 0, result |-> None,
     invoked |-> 0, forbidden |-> 0]

\* forbid_locked_wrapper that looks at the first counter's lock only.
forbid_locked_wrapper_first(t, in) == \E ctx \in in.contexts, returns \in {10, 11} :
    /\ pc[t] = "idle"
    /\ LET locks == client_get_multi(cache, <<LockKeyOf(1, ctx)>>, Seconds)
       IN  pc' = [pc EXCEPT ![t] = IF DOMAIN locks # {} THEN "forbid" ELSE "func"]
    /\ frame' = [frame EXCEPT ![t] =
           [ForbidFrame EXCEPT !.ctx = ctx, !.returns = returns]]
    /\ UNCHANGED <<memory_vars, client_vars>>

\* forbid_locked_wrapper, lockout.py:94-98: locks = self.cache.get_multi(...)
forbid_locked_wrapper(t, in) == \E ctx \in in.contexts, returns \in {10, 11} :
    /\ pc[t] = "idle"
    /\ LET locks == client_get_multi(cache, LockKeys(ctx), Seconds)
       IN  pc' = [pc EXCEPT ![t] = IF DOMAIN locks # {} THEN "forbid" ELSE "func"]
    /\ frame' = [frame EXCEPT ![t] =
           [ForbidFrame EXCEPT !.ctx = ctx, !.returns = returns]]
    /\ UNCHANGED <<memory_vars, client_vars>>

\* lockout.py:99, return self.forbid_action(ctx)
ForbidAction(t) ==
    /\ pc[t] = "forbid"
    /\ frame' = [frame EXCEPT ![t].result = forbid_action(frame[t].ctx),
                              ![t].forbidden = @ + 1]
    /\ pc' = [pc EXCEPT ![t] = "forbid_ret"]
    /\ UNCHANGED <<memory_vars, client_vars>>

\* lockout.py:100, return func(ctx, *args, **kwargs)
ForbidFunc(t) ==
    /\ pc[t] = "func"
    /\ frame' = [frame EXCEPT ![t].result = frame[t].returns,
                              ![t].invoked = @ + 1]
    /\ pc' = [pc EXCEPT ![t] = "forbid_ret"]
    /\ UNCHANGED <<memory_vars, client_vars>>

\* forbid_locked_wrapper has returned frame[t].result.
ForbidReturn(t) ==
    /\ pc[t] = "forbid_ret"
    /\ frame' = [frame EXCEPT ![t] = GuardFrame]
    /\ pc' = [pc EXCEPT ![t] = "idle"]
    /\ UNCHANGED <<memory_vars, client_vars>>

\* Caller 1 makes guarded calls while caller 2 calls a function wrapped by
\* forbid_locked.
ForbidInputs ==
    [callers |-> {1}, askers |-> {2}, contexts |-> Contexts,
     tick |-> TicksPerSecond, max_ticks |-> MaxTicks]

NextForbidOf(in) ==
    \/ NextLockoutOf(in)
    \/ \E t \in in.askers :
        \/ forbid_locked_wrapper(t, in) \/ ForbidAction(t) \/ ForbidFunc(t)
        \/ ForbidReturn(t)

NextForbid == NextForbidOf(ForbidInputs)

InitForbid(in) ==
    /\ InitMemory
    /\ InitClient
    /\ pc = [t \in in.callers \cup in.askers |-> "idle"]
    /\ frame = [t \in in.callers \cup in.askers |-> GuardFrame]

\* Guarded calls and calls through forbid_locked on one lockout.
SpecForbid == InitForbid(ForbidInputs) /\ [][NextForbid]_vars

\* A lock key of some counter is in the cache for ctx.
Locked(ctx) ==
    \E c \in DOMAIN counters : client_live(cache, LockKeyOf(c, ctx), Seconds)

\* C11: a call through forbid_locked made while a lock key of one of the
\* counters is in the cache for its context does not invoke the function
\* and returns forbid_action(ctx); made while none is, it invokes the
\* function once, returns its result and does not invoke forbid_action.
C11_ForbidLocked ==
    [][\A t \in ForbidInputs.askers :
          LET f == frame'[t]
          IN  /\ (pc[t] = "idle" /\ pc'[t] # "idle") =>
                    pc'[t] = (IF Locked(f.ctx) THEN "forbid" ELSE "func")
              /\ (pc[t] = "forbid" /\ pc'[t] = "forbid_ret") =>
                    /\ f.result = forbid_action(f.ctx)
                    /\ f.invoked = 0 /\ f.forbidden = 1
              /\ (pc[t] = "func" /\ pc'[t] = "forbid_ret") =>
                    /\ f.result = f.returns
                    /\ f.invoked = 1 /\ f.forbidden = 0]_vars

\* A call was forbidden on the lock of another counter while the lock of
\* its user is not set.
C11_Witness ==
    \E t \in ForbidInputs.askers :
       /\ pc[t] = "forbid_ret"
       /\ frame[t].forbidden = 1 /\ frame[t].invoked = 0
       /\ frame[t].result = forbid_action(frame[t].ctx)
       /\ LockKeyOf(1, frame[t].ctx) \notin DOMAIN cache

\* ------------------------------------- incr and decr with initial_value

IncrKey == "n"

\* self.client.decr(key, delta), memcache.py:151; callers start from a
\* value they cannot exhaust, so the backend's floor of zero is not met.
client_decr(c, key, delta, now) ==
    IF client_live(c, key, now)
    THEN [cache |-> [c EXCEPT ![key].value = @ - delta],
          result |-> c[key].value - delta]
    ELSE [cache |-> c, result |-> None]

\* self.client.incr or self.client.decr, by the method called
client_step(fn, c, key, delta, now) ==
    IF fn = "incr" THEN client_incr(c, key, delta, now)
    ELSE client_decr(c, key, delta, now)

\* The arguments of one call of MemcachedClient.incr or decr and its result.
IncrFrame == [fn |-> "incr", delta |-> 1, initial_value |-> None, result |-> None]

\* NumIncr callers each make one call, all with the same arguments.
NumIncr == 3

IncrInputs ==
    [callers |-> 1 .. NumIncr, fns |-> {"incr", "decr"}, deltas |-> {1, 2},
     initial_values |-> {None, 0, 2 * NumIncr}]

InitIncr(in) ==
    /\ InitMemory
    /\ InitClient
    /\ pc = [t \in in.callers |-> "incr"]
    /\ \E fn \in in.fns, delta \in in.deltas, initial_value \in in.initial_values :
          /\ fn = "decr" => initial_value # 0
          /\ frame = [t \in in.callers |->
                 [IncrFrame EXCEPT !.fn = fn, !.delta = delta,
                                   !.initial_value = initial_value]]

\* incr that stores the initial value with set instead of add.
AdapterAdd_set(t) ==
    /\ pc[t] = "incr_add"
    /\ cache' = DictSet(cache, IncrKey,
                        [value |-> frame[t].initial_value, expires |-> 0])
    /\ pc' = [pc EXCEPT ![t] = "incr_again"]
    /\ UNCHANGED <<memory_vars, ticks, dependency, calls, frame>>

\* memcache.py:132-136 (incr) and 151-155 (decr): the first attempt
AdapterIncr(t) ==
    /\ pc[t] = "incr"
    /\ LET f == frame[t]
           r == client_step(f.fn, cache, IncrKey, f.delta, Seconds)
       IN  /\ cache' = r.cache
           /\ IF r.result # None \/ f.initial_value = None
              THEN /\ frame' = [frame EXCEPT ![t].result = r.result]
                   /\ pc' = [pc EXCEPT ![t] = "incr_ret"]
              ELSE /\ pc' = [pc EXCEPT ![t] = "incr_add"]
                   /\ UNCHANGED frame
    /\ UNCHANGED <<memory_vars, ticks, dependency, calls>>

\* memcache.py:137 and 156, self.client.add(key, initial_value)
AdapterAdd(t) ==
    /\ pc[t] = "incr_add"
    /\ cache' = client_add(cache, IncrKey, frame[t].initial_value, 0, Seconds).cache
    /\ pc' = [pc EXCEPT ![t] = "incr_again"]
    /\ UNCHANGED <<memory_vars, ticks, dependency, calls, frame>>

\* memcache.py:138 and 157, the second attempt, whose result is returned
AdapterIncrAgain(t) ==
    /\ pc[t] = "incr_again"
    /\ LET f == frame[t]
           r == client_step(f.fn, cache, IncrKey, f.delta, Seconds)
       IN  /\ cache' = r.cache
           /\ frame' = [frame EXCEPT ![t].result = r.result]
    /\ pc' = [pc EXCEPT ![t] = "incr_ret"]
    /\ UNCHANGED <<memory_vars, ticks, dependency, calls>>

NextIncrOf(in) ==
    \E t \in in.callers : AdapterIncr(t) \/ AdapterAdd(t) \/ AdapterIncrAgain(t)

NextIncr == NextIncrOf(IncrInputs)

\* Concurrent calls of incr, or of decr, on a key that is missing at first.
SpecIncr == InitIncr(IncrInputs) /\ [][NextIncr]_vars

\* C12: when all of N concurrent calls of incr (decr) with an initial value
\* i on a key missing at first have returned, each has returned a value
\* and the key holds i + N * delta (i - N * delta); a call without an
\* initial value on a missing key returns nothing and leaves the key
\* missing.
C12_IncrInitialValue ==
    (\A t \in IncrInputs.callers : pc[t] = "incr_ret") =>
        LET f == frame[1]
            sign == IF f.fn = "incr" THEN 1 ELSE -1
        IN  IF f.initial_value = None
            THEN /\ \A t \in IncrInputs.callers : frame[t].result = None
                 /\ IncrKey \notin DOMAIN cache
            ELSE /\ \A t \in IncrInputs.callers : frame[t].result # None
                 /\ IncrKey \in DOMAIN cache
                 /\ cache[IncrKey].value =
                        f.initial_value + sign * NumIncr * f.delta

\* All calls of incr by 2 on a key missing at first have returned, each
\* a different value counted from the initial value 0.
C12_Witness ==
    /\ \A t \in IncrInputs.callers : pc[t] = "incr_ret"
    /\ frame[1].initial_value = 0
    /\ frame[1].delta = 2
    /\ {frame[t].result : t \in IncrInputs.callers} = {2 * n : n \in 1 .. NumIncr}

\* ------------------------------------------- MemoryCache: several writers

NumWriters == 3
MaxWriterItems == 4

\* Writers that store one key for one second, singly or in bulk.
WriterInputs ==
    [threads |-> 1 .. NumWriters, keys |-> {"a"}, values |-> {1}, times |-> {1},
     key_lists |-> {<<"", <<"a">> >>}, max_records |-> MaxWriterItems]

InitWriters(in) ==
    /\ InitMemory
    /\ InitClient
    /\ pc = [t \in in.threads |-> "idle"]
    /\ frame = [t \in in.threads |-> IdleFrame]

\* The steps of threads that only store.
NextWritersOf(in) ==
    \/ Tick
    \/ \E t \in in.threads :
        \/ set(t, in) \/ set_multi(t, in)
        \/ StoreLocked(t) \/ StoreMultiLocked(t)
        \/ BucketAcquire(t) \/ BucketLocked(t) \/ SweepLocked(t)
        \/ Return(t)

NextWriters == NextWritersOf(WriterInputs)

\* MemoryCache under concurrent calls of set and set_multi.
SpecWriters == InitWriters(WriterInputs) /\ [][NextWriters]_vars

\* The activation of a bucket a store that read the clock at now falls in.
Activation(now) == now \div bucket_interval

\* C13: no two writers that computed the same bucket id during the same
\* interval both run find_expired on that bucket.
C13_ScanOncePerActivation ==
    \A t, u \in WriterInputs.threads :
        (t # u /\ frame[t].scanned /\ frame[u].scanned) =>
            Activation(frame[t].now) # Activation(frame[u].now)

\* A second passes between two calls.
TickIdle ==
    /\ \A t \in DOMAIN pc : pc[t] = "idle"
    /\ Tick

\* The steps of the threads in.threads when no call is held up while the
\* clock moves.
NextSteadyOf(in) ==
    \/ TickIdle
    \/ \E t \in in.threads :
        \/ set(t, in) \/ add(t, in) \/ replace(t, in)
        \/ set_multi(t, in) \/ add_multi(t, in) \/ replace_multi(t, in)
        \/ get(t, in) \/ get_multi(t, in) \/ delete(t, in)
        \/ delete_multi(t, in) \/ flush_all(t)
        \/ StoreLocked(t) \/ StoreMultiLocked(t)
        \/ BucketAcquire(t) \/ BucketLocked(t) \/ SweepLocked(t)
        \/ GetLocked(t) \/ GetMultiLocked(t) \/ DeleteLocked(t)
        \/ DeleteMultiLocked(t) \/ FlushLocked(t) \/ FlushBucketAcquire(t)
        \/ FlushBucketLocked(t) \/ Return(t)

NextSteady == NextSteadyOf(BulkInputs)

\* MemoryCache called by one thread, each call within the second it began.
SpecSteady == Init /\ [][NextSteady]_vars

\* The keys of the records of bucket idx whose expiry has passed at now.
Due(idx, now) == find_expired(expire_buckets[idx], now).expired_keys

\* C14: a store that lands in a bucket holding records of an earlier
\* activation whose expiry has passed scans the bucket and goes on to
\* delete the keys of those records from the table, whatever was stored
\* in the other buckets in between.  Where every lifetime is a second and
\* every call runs within the second it began, a record whose expiry has
\* passed was appended in an earlier activation of its bucket.
C14_SweptWhenNextActive ==
    [][\A t \in BulkInputs.threads :
          (pc[t] = "bucket_locked" /\ pc'[t] # "bucket_locked") =>
              LET now == frame[t].now
                  due == Due(bucket_index(bucket_id_of(now)), now)
              IN  due # <<>> =>
                     /\ frame'[t].scanned
                     /\ pc'[t] = "sweep_acquire"
                     /\ frame'[t].expired_keys = due]_vars

\* ----------------------------------------------- MemoryCache: the locks

\* Two threads that store, read and delete one key and flush the cache.
ConcurrentInputs ==
    [threads |-> Threads, keys |-> {"a"}, values |-> {1}, times |-> {1},
     key_lists |-> {<<"", <<"a">> >>}, max_records |-> MaxBucketItems]

NextConcurrent == NextOf(ConcurrentInputs)

\* MemoryCache under concurrent calls of all its operations.
SpecConcurrent == Init /\ [][NextConcurrent]_vars

\* The bucket locks thread t holds.
HeldBuckets(t) == {b \in DOMAIN bucket_locks : bucket_locks[b] = t}

\* Thread t is about to acquire self.lock.
WantsMain(t) == pc[t] \in {"acquire", "sweep_acquire"}

\* Thread t cannot take its next step: the lock it asks for is held.
Blocked(t) ==
    \/ WantsMain(t) /\ lock # 0
    \/ /\ pc[t] = "bucket_acquire"
       /\ bucket_locks[bucket_index(bucket_id_of(frame[t].now))] # 0
    \/ pc[t] = "flush_bucket_acquire" /\ bucket_locks[frame[t].i] # 0

\* C15: a thread that holds a bucket lock is not acquiring self.lock and
\* holds no second bucket lock; the threads inside a call are never all
\* blocked; a call that has returned holds no lock.
C15_NoDeadlock ==
    /\ \A t \in Threads :
          /\ HeldBuckets(t) # {} => ~WantsMain(t)
          /\ Cardinality(HeldBuckets(t)) <= 1
          /\ pc[t] \in {"ret", "idle"} => (lock # t /\ HeldBuckets(t) = {})
    /\ (\E t \in Threads : pc[t] # "idle") =>
          \E t \in Threads : pc[t] # "idle" /\ ~Blocked(t)

\* flush_all holds self.lock and waits for a bucket lock that a store
\* holds, while that store has expired keys to delete under self.lock.
C15_Witness ==
    \E t, u \in Threads :
       /\ pc[t] = "flush_bucket_acquire" /\ lock = t
       /\ pc[u] = "bucket_locked" /\ bucket_locks[frame[t].i] = u
       /\ Due(frame[t].i, frame[u].now) # <<>>
       /\ last_expire_bucket_id # bucket_id_of(frame[u].now)

\* ------------------------------------------ OnePass.wait: the schedule

\* The interval slept after one of wait_time: doubled up to MaxWaitTime.
NextInterval(wait_time) ==
    IF wait_time < MaxWaitTime THEN wait_time * 2 ELSE wait_time

\* C16: wait sleeps 0.05 s first and after each sleep that found the
\* marker in place the next interval is the double of the last up to
\* 0.8 s, and the budget is less by the interval just slept.
C16_BudgetBySleptInterval ==
    [][\A i \in WaitInputs.instances :
          /\ (pc[i] = "entered" /\ pc'[i] = "sleep") =>
                 frame'[i].wait_time = InitialWaitTime
          /\ (Polls(i) /\ frame'[i].current # None) =>
                 /\ frame'[i].wait_time = NextInterval(frame[i].wait_time)
                 /\ frame'[i].timeout = frame[i].timeout - frame[i].wait_time]_vars

\* Three instances; wait is called with a timeout of 0.4 s; the time is
\* looked at every 0.2 s.
ReacquireInputs ==
    [instances |-> {1, 2, 3}, timeouts |-> {8}, tick |-> 4,
     max_ticks |-> MaxPassTicks]

NextReacquire == NextOnePassOf(ReacquireInputs)

\* Three OnePass instances on one key, waiting 0.4 s.
SpecReacquire == InitOnePass(ReacquireInputs) /\ [][NextReacquire]_vars

\* C17: wait returns False only with its budget used up and after reads
\* that all returned the marker read first, also where a third instance
\* acquired the key between two reads.
C17_FalseOnlyWhenExhausted ==
    [][\A i \in ReacquireInputs.instances :
          (pc[i] # "waited" /\ pc'[i] = "waited" /\ ~frame'[i].result) =>
              /\ frame'[i].timeout <= 0
              /\ frame'[i].current = frame'[i].expected]_vars

\* ------------------------------------------------------- OnePass exit

\* The step is instance i's __exit__: no other instance moves and no time
\* passes.
Exits(i) ==
    /\ pc[i] \in {"entered", "waited", "exited"} /\ pc'[i] = "exited"
    /\ ticks' = ticks
    /\ \A j \in DOMAIN pc \ {i} : pc'[j] = pc[j] /\ frame'[j] = frame[j]

\* C20: __exit__ of an instance whose acquired is false leaves the cache
\* as it is; of one whose acquired is true it deletes the key and sets
\* acquired to false, so that every later __exit__ of the instance leaves
\* the cache as it is.
C20_ExitOnce ==
    [][\A i \in OnePassInputs.instances :
          /\ Exits(i) =>
                IF frame[i].acquired
                THEN OnePassKey \notin DOMAIN cache' /\ ~frame'[i].acquired
                ELSE cache' = cache /\ ~frame'[i].acquired
          /\ pc'[i] = "exited" => ~frame'[i].acquired]_vars

\* An instance has left and another holds the key it acquired within the
\* same second, which a second __exit__ of the first must leave alone.
C20_Witness ==
    \E i, j \in OnePassInputs.instances :
       /\ pc[i] = "exited" /\ pc[j] = "entered"
       /\ frame[j].acquired /\ frame[j].marker = frame[i].marker
       /\ client_live(cache, OnePassKey, Seconds)

\* ------------------------------------------------ Lockout: the lock key

\* C18: when a failed call has met a counter's count, then after its
\* delete and its add of the lock the counter's key is absent and the
\* lock key is in the cache until duration seconds from then, also when a
\* lock key was there before.
C18_LockForDuration ==
    [][\A t \in LockoutInputs.callers :
          (pc[t] = "lock" /\ pc'[t] # "lock") =>
              LET f == frame[t]
                  lock_key == LockKeyOf(f.c, f.ctx)
              IN  /\ ~client_live(cache', KeyOf(f.c, f.ctx), Seconds)
                  /\ client_live(cache', lock_key, Seconds)
                  /\ cache'[lock_key].expires = Seconds + counters[f.c].duration]_vars

\* C19: a counter's alert is invoked by the step that puts the counter's
\* lock key into the cache, once, and by no step that finds the lock key
\* there already.
C19_AlertOnNewLock ==
    [][\A t \in LockoutInputs.callers :
          (pc[t] = "lock" /\ pc'[t] # "lock") =>
              LET f == frame[t]
                  newly == ~client_live(cache, LockKeyOf(f.c, f.ctx), Seconds)
              IN  frame'[t].alerts =
                      IF newly /\ counters[f.c].alert
                      THEN Append(f.alerts, f.c) ELSE f.alerts]_vars

\* ------------------------------------------------ MemoryCache: the sweep

\* C21: the delete_multi of a store's sweep takes from the table no entry
\* that is live when it runs: a key stored again with an expiry not yet
\* passed keeps its entry.
C21_SweepOnlyExpired ==
    [][\A t \in BulkInputs.threads :
          (pc[t] = "sweep_acquire" /\ pc'[t] # "sweep_acquire") =>
              \A key \in DOMAIN items :
                  Live(items, key, clock) =>
                      key \in DOMAIN items' /\ items'[key] = items[key]]_vars

\* ------------------------------------------- OnePass: another's marker

\* C22: the __exit__ of an instance leaves in the cache a marker that is
\* not its own, as when its marker lapsed while it was inside and another
\* instance acquired the key since.
C22_ExitKeepsOthersMarker ==
    [][\A i \in OnePassInputs.instances :
          (/\ Exits(i)
           /\ client_live(cache, OnePassKey, Seconds)
           /\ cache[OnePassKey].value # frame[i].marker) =>
              cache' = cache]_vars

\* ---------------------------------------------- Lockout: the try-count

\* C23: the try-count a failed call takes from incr, after its add found
\* the counter's key in the cache, is a number.
C23_TryCountIsNumber ==
    [][\A t \in LockoutInputs.callers :
          (pc[t] = "incr" /\ pc'[t] # "incr") => frame'[t].max_try # None]_vars

\* ------------------------------------------- OnePass.wait: termination

\* Two instances; wait is called with a negative timeout, with none (0),
\* with 0.15 s and with 0.4 s.
TerminateInputs ==
    [instances |-> {1, 2}, timeouts |-> {-1, 0, 3, 8}, tick |-> 1,
     max_ticks |-> MaxTicks]

NextTerminate == NextOnePassOf(TerminateInputs)

\* Two OnePass instances on one key, wait called with any timeout.
SpecTerminate == InitOnePass(TerminateInputs) /\ [][NextTerminate]_vars

\* C24: wait goes to sleep only with a budget above zero and for an
\* interval above zero, re-reads the marker only after that sleep, and
\* after each re-read that sends it to sleep again its budget is less by
\* 0.1 s at least: the re-reads of one wait are fewer than its budget in
\* tenths of a second plus one.
C24_WaitTerminates ==
    [][\A i \in TerminateInputs.instances :
          /\ (pc'[i] = "sleep" /\ frame'[i] # frame[i]) =>
                /\ frame'[i].timeout > 0
                /\ frame'[i].wake > ticks
          /\ Polls(i) =>
                /\ ticks >= frame[i].wake
                /\ pc'[i] = "sleep" =>
                      frame'[i].timeout <= frame[i].timeout - 2 * InitialWaitTime
          /\ (pc[i] = "entered" /\ pc'[i] = "waited" /\ ~frame[i].acquired) =>
                frame'[i].timeout <= 0 /\ ~frame'[i].result]_vars

\* wait has returned False after four sleeps that used up the budget it
\* took from the instance's time.
C24_Witness ==
    \E i \in TerminateInputs.instances :
       /\ pc[i] = "waited" /\ ~frame[i].result
       /\ frame[i].wait_time = MaxWaitTime
       /\ frame[i].timeout = OnePassTime * TicksPerSecond - 30 * InitialWaitTime

====
